---- MODULE Spec2Model ----
(***************************************************************************)
(* BlockchainAnalyzer (src/BC_Analyzer.py): the recursive construction of  *)
(* the wallet graph from a ledger stored in three SQLite tables (TRANSACT, *)
(* INPUTS, OUTPUTS).  The Python call stack of _process_transaction is an  *)
(* explicit sequence of frames; every SQL statement is an operator over    *)
(* the tables; a failing statement (sqlite3.Error) is a choice of the      *)
(* environment.                                                            *)
(***************************************************************************)
EXTENDS Integers, Sequences, FiniteSets, TLC

VARIABLES
    db,                    \* the ledger behind self.conn (read only)
    G,                     \* self.G, an nx.DiGraph
    wallet_balances,       \* self.wallet_balances, a dict
    visited_transactions,  \* self.visited_transactions, a set
    build,                 \* the activation of build_graph
    stack,                 \* the activations of _process_transaction, innermost first
    outcome,               \* how the last build_graph call ended
    entry,                 \* history: the object's state when the current build was called
    expansions,            \* history: per hash, the calls of this build that passed the visited check
    pairs_done,            \* history: per hash, the (input, output) pairs whose loop body completed
    last,                  \* history: the last transaction whose pair loop ran
    query_failed,          \* history: a statement failed during the current build
    main                   \* the activation of main(), if the process runs the script

vars == <<db, G, wallet_balances, visited_transactions, build, stack, outcome,
          entry, expansions, pairs_done, last, query_failed, main>>

----------------------------------------------------------------------------
(* Column values.  SQLite columns are dynamically typed: a value column    *)
(* holds a number or NULL, a text column a string or NULL.                 *)

NULL == "NULL"
Num(n) == [t |-> "num", v |-> n]
NullValue == [t |-> "null", v |-> 0]

\* Values of 2^53 and beyond: the number a * 2^53 + b, with b small, is written
\* as the integer a * Big + b.  Big is the numeral for 2^53, and integer
\* addition of two such numerals is the exact sum of the numbers.
Big == 1000

\* The length of the strings the short names stand for: transaction hashes of
\* 64 characters, addresses of 34, one address of 64 characters (W64) and one
\* hash stored with 62 characters (H62).
StrLen(s) ==
    CASE s \in {"T1", "T2", "T3", "T4", "T9", "W64"} -> 64
      [] s \in {"H62"} -> 62
      [] OTHER -> 34

\* TRANSACT.time: a '%Y-%m-%d %H:%M:%S' string, an epoch number, or anything else.
SecondsPerDay == 86400
Formatted(day, sec) == [kind |-> "ymdhms", secs |-> day * SecondsPerDay + sec]
Epoch(n) == [kind |-> "epoch", secs |-> n]
Garbage == [kind |-> "other", secs |-> 0]

In(h, r, v, s) == [transaction_hash |-> h, recipient |-> r, value |-> v,
                   spending_transaction_hash |-> s]
Out(h, r, v) == [transaction_hash |-> h, recipient |-> r, value |-> v]
Tx(h, t) == [hash |-> h, time |-> t]

----------------------------------------------------------------------------
(* Ledgers.  A ledger is the content of the three tables, each a sequence  *)
(* of rows in storage order.                                               *)

\* The specification's scenario: one transaction, A pays B and C.
LedgerScenario ==
    [TRANSACT |-> <<Tx("T1", Formatted(3, 0))>>,
     INPUTS   |-> <<In("T1", "A", Num(5), NULL)>>,
     OUTPUTS  |-> <<Out("T1", "B", Num(3)), Out("T1", "C", Num(2))>>]

\* T1 -> T2 -> T3 -> T1 by successor lookups; T1 also pays change to its own
\* sender, so it is its own successor.  T2 carries an epoch timestamp.
LedgerCycle ==
    [TRANSACT |-> <<Tx("T1", Formatted(3, 0)), Tx("T2", Epoch(4 * SecondsPerDay + 7)),
                    Tx("T3", Formatted(5, 30))>>,
     INPUTS   |-> <<In("T1", "A", Num(5), "T1"), In("T2", "B", Num(3), "T2"),
                    In("T3", "C", Num(3), "T3")>>,
     OUTPUTS  |-> <<Out("T1", "B", Num(3)), Out("T1", "A", Num(2)),
                    Out("T2", "C", Num(3)), Out("T3", "A", Num(3))>>]

\* Records that repeat an address inside T1 (2 inputs x 2 outputs), and a
\* second transaction T2 paying along the same ordered pair A -> B.
LedgerMulti ==
    [TRANSACT |-> <<Tx("T1", Formatted(3, 0)), Tx("T2", Formatted(4, 0))>>,
     INPUTS   |-> <<In("T1", "A", Num(5), NULL), In("T1", "A", Num(3), NULL),
                    In("T2", "A", Num(7), NULL)>>,
     OUTPUTS  |-> <<Out("T1", "B", Num(1)), Out("T1", "C", Num(2)),
                    Out("T2", "B", Num(6))>>]

\* T1's successors: T2 (timestamp that does not parse, with an onward output to
\* C), T4 (no TRANSACT row) and T3 (well formed).
LedgerPruned ==
    [TRANSACT |-> <<Tx("T1", Formatted(3, 0)), Tx("T2", Garbage),
                    Tx("T3", Epoch(6 * SecondsPerDay))>>,
     INPUTS   |-> <<In("T1", "A", Num(5), NULL), In("T2", "B", Num(3), "T2"),
                    In("T4", "C", Num(2), "T4"), In("T3", "C", Num(1), "T3")>>,
     OUTPUTS  |-> <<Out("T1", "B", Num(3)), Out("T1", "C", Num(2)),
                    Out("T2", "C", Num(3)), Out("T3", "A", Num(1))>>]

\* T1's successors through B: T2, whose records hold a NULL, then T3 (well
\* formed).  k chooses the NULL column of T2: the recipient of its input (1) or
\* output (2), the value of its input (3) or output (4).
FaultKinds == 1 .. 4
LedgerFaulty(k) ==
    [TRANSACT |-> <<Tx("T1", Formatted(3, 0)), Tx("T2", Formatted(4, 0)),
                    Tx("T3", Formatted(5, 0))>>,
     INPUTS   |-> <<In("T1", "A", Num(5), NULL),
                    In("T2", IF k = 1 THEN NULL ELSE "B",
                             IF k = 3 THEN NullValue ELSE Num(3), NULL),
                    In("T9", "B", Num(3), "T2"),
                    In("T3", "B", Num(1), "T3")>>,
     OUTPUTS  |-> <<Out("T1", "B", Num(3)),
                    Out("T2", IF k = 2 THEN NULL ELSE "C",
                              IF k = 4 THEN NullValue ELSE Num(3)),
                    Out("T3", "C", Num(1))>>]

\* T1 pays B in three outputs, one of them of 2^53: the partial sums of B's
\* balance are not all doubles.
LedgerFloat ==
    [TRANSACT |-> <<Tx("T1", Formatted(3, 0))>>,
     INPUTS   |-> <<In("T1", "A", Num(1), NULL)>>,
     OUTPUTS  |-> <<Out("T1", "B", Num(Big)), Out("T1", "B", Num(1)),
                    Out("T1", "B", Num(1))>>]

\* An address of 64 characters and a hash stored with 62.
LedgerOdd ==
    [TRANSACT |-> <<Tx("T1", Formatted(3, 0)), Tx("H62", Formatted(4, 0))>>,
     INPUTS   |-> <<In("T1", "W64", Num(5), NULL), In("H62", "A", Num(3), "H62")>>,
     OUTPUTS  |-> <<Out("T1", "A", Num(3)), Out("H62", "W64", Num(3))>>]

Ledgers ==
    {LedgerScenario, LedgerCycle, LedgerMulti, LedgerPruned, LedgerOdd, LedgerFloat}
        \cup {LedgerFaulty(k) : k \in FaultKinds}

\* What build_graph is called with.
Targets == {"T1", "T3", "A", "B", "W64", "H62"}
MaxDepthArg == 2
Depths == 0 .. MaxDepthArg

\* The hashes in the order SQLite's UNION (a sorted temporary index) yields them.
HashOrder == <<"H62", "T1", "T2", "T3", "T4", "T9">>

----------------------------------------------------------------------------
(* The SQL statements.                                                     *)

Project(rows) == [i \in 1 .. Len(rows) |-> <<rows[i].recipient, rows[i].value>>]
Range(s) == {s[i] : i \in 1 .. Len(s)}

\* SELECT hash, time, ... FROM TRANSACT WHERE hash = ?  (fetchone: <<>> is None)
SelectTransact(d, h) ==
    LET rows == SelectSeq(d.TRANSACT, LAMBDA r : r.hash = h)
    IN  IF rows = <<>> THEN <<>> ELSE <<Head(rows)>>

\* SELECT recipient, value FROM INPUTS WHERE transaction_hash = ?
SelectInputs(d, h) ==
    Project(SelectSeq(d.INPUTS, LAMBDA r : r.transaction_hash = h))

\* SELECT recipient, value FROM OUTPUTS WHERE transaction_hash = ?
SelectOutputs(d, h) ==
    Project(SelectSeq(d.OUTPUTS, LAMBDA r : r.transaction_hash = h))

\* SELECT spending_transaction_hash FROM INPUTS
\* WHERE recipient = ? AND spending_transaction_hash IS NOT NULL
\* (a NULL parameter or a NULL column never compares equal)
SelectSpending(d, a) ==
    LET rows == SelectSeq(d.INPUTS, LAMBDA r :
                    /\ a # NULL
                    /\ r.recipient # NULL
                    /\ r.recipient = a
                    /\ r.spending_transaction_hash # NULL)
    IN  [i \in 1 .. Len(rows) |-> rows[i].spending_transaction_hash]

\* SELECT transaction_hash FROM INPUTS WHERE recipient = ?
\* UNION SELECT transaction_hash FROM OUTPUTS WHERE recipient = ?
SelectWalletTxs(d, a) ==
    LET Match(r) == a # NULL /\ r.recipient # NULL /\ r.recipient = a
        touching == {r.transaction_hash : r \in {q \in Range(d.INPUTS) : Match(q)}}
                       \cup {r.transaction_hash : r \in {q \in Range(d.OUTPUTS) : Match(q)}}
    IN  SelectSeq(HashOrder, LAMBDA h : h \in touching)

----------------------------------------------------------------------------
(* Timestamps (lines 64-73).  A parse yields <<seconds>> or <<>> when the  *)
(* call raises.                                                            *)

\* datetime.strptime(tx_time, '%Y-%m-%d %H:%M:%S')
Strptime(t) == IF t.kind = "ymdhms" THEN <<t.secs>> ELSE <<>>

\* datetime.fromtimestamp(int(tx_time))
FromTimestamp(t) == IF t.kind = "epoch" THEN <<t.secs>> ELSE <<>>

\* Mutation of lines 68-69: no second attempt.
ParseTimeFormattedOnly(t) == Strptime(t)

\* The two attempts in their order; <<>> when both raise.
ParseTime(t) == IF Strptime(t) # <<>> THEN Strptime(t) ELSE FromTimestamp(t)

\* tx_datetime.strftime('%Y-%m-%d'): the day the instant falls on.
Strftime(secs) == secs \div SecondsPerDay

----------------------------------------------------------------------------
(* The graph: nx.DiGraph keeps one attribute dict per node and one per     *)
(* ordered pair of nodes.                                                  *)

EmptyGraph == [nodes |-> {}, attrs |-> <<>>, edges |-> <<>>]

Put(f, k, v) == (k :> v) @@ f
Get(f, k, default) == IF k \in DOMAIN f THEN f[k] ELSE default

\* G.add_edge(u, v, tx_id=, value=, date=): u then v become nodes unless None
\* (ValueError, after u was added), then the pair's attributes are updated.
AddEdge(g, u, v, attr) ==
    IF u = NULL THEN [g |-> g, raised |-> TRUE]
    ELSE IF v = NULL
         THEN [g |-> [g EXCEPT !.nodes = @ \cup {u}], raised |-> TRUE]
         ELSE [g |-> [g EXCEPT !.nodes = @ \cup {u, v},
                               !.edges = Put(@, <<u, v>>, attr)],
               raised |-> FALSE]

\* A Python float is an IEEE 754 double: 53 significant bits, round to nearest,
\* ties to even.  Every integer below 2^53 in magnitude is a double, and so is
\* every sum of two of them below it; from 2^53 on the doubles are 2 apart,
\* from 2^54 on 4 apart.

\* The distance between neighbouring doubles in the binade of a * 2^53.
RECURSIVE Ulp(_)
Ulp(a) == IF a = 0 THEN 1 ELSE 2 * Ulp(a \div 2)

\* The double nearest to x.
RoundFloat(x) ==
    LET mag  == IF x < 0 THEN 0 - x ELSE x
        a    == (mag + Big \div 2) \div Big
        b    == mag - a * Big
        ulp  == Ulp(IF b < 0 THEN a - 1 ELSE a)
        r    == b % ulp
        down == b - r
        up   == down + ulp
        near == IF r = 0 THEN b
                ELSE IF 2 * r < ulp THEN down
                ELSE IF 2 * r > ulp THEN up
                ELSE IF down % (2 * ulp) = 0 THEN down ELSE up
        m    == a * Big + near
    IN  IF x < 0 THEN 0 - m ELSE m

\* x + y on floats (line 41)
FloatAdd(x, y) == RoundFloat(x + y)

\* float(x): TypeError on None.
CanFloat(x) == x.t = "num"
Float(x) == RoundFloat(x.v)

\* Mutation of line 41: the amount replaces the entry instead of adding to it.
UpdateWalletBalanceAssign(bal, wallet, amount) == Put(bal, wallet, amount)

\* _update_wallet_balance (lines 37-41)
UpdateWalletBalance(bal, wallet, amount) ==
    Put(bal, wallet, FloatAdd(Get(bal, wallet, 0), amount))

----------------------------------------------------------------------------
(* The pair loop of _process_transaction (lines 91-101).                   *)

\* Mutation of line 97: the edge carries the input's value.
PairBodyInputValue(st, tx_hash, tx_date, inp, out) ==
    LET e == AddEdge(st.g, inp[1], out[1],
                     [tx_id |-> tx_hash, value |-> inp[2], date |-> tx_date])
    IN  IF e.raised \/ ~CanFloat(inp[2])
        THEN [st EXCEPT !.g = e.g, !.raised = TRUE]
        ELSE LET debited == UpdateWalletBalance(st.bal, inp[1], 0 - Float(inp[2]))
             IN  IF ~CanFloat(out[2])
                 THEN [st EXCEPT !.g = e.g, !.bal = debited, !.raised = TRUE]
                 ELSE [st EXCEPT !.g = e.g,
                                 !.bal = UpdateWalletBalance(debited, out[1], Float(out[2])),
                                 !.done = @ + 1]

\* One pass of the inner loop body for the records inp and out.  done counts
\* the passes that ran to their end; raised says an exception left the loop.
PairBody(st, tx_hash, tx_date, inp, out) ==
    LET e == AddEdge(st.g, inp[1], out[1],
                     [tx_id |-> tx_hash, value |-> out[2], date |-> tx_date])
    IN  IF e.raised \/ ~CanFloat(inp[2])
        THEN [st EXCEPT !.g = e.g, !.raised = TRUE]
        ELSE LET debited == UpdateWalletBalance(st.bal, inp[1], 0 - Float(inp[2]))
             IN  IF ~CanFloat(out[2])
                 THEN [st EXCEPT !.g = e.g, !.bal = debited, !.raised = TRUE]
                 ELSE [st EXCEPT !.g = e.g,
                                 !.bal = UpdateWalletBalance(debited, out[1], Float(out[2])),
                                 !.done = @ + 1]

\* The k-th pair in loop order: inputs outermost.
InputOf(k, inputs, outputs) == inputs[((k - 1) \div Len(outputs)) + 1]
OutputOf(k, inputs, outputs) == outputs[((k - 1) % Len(outputs)) + 1]

RECURSIVE PairLoop(_, _, _, _, _, _)
PairLoop(st, tx_hash, tx_date, inputs, outputs, k) ==
    IF st.raised \/ k > Len(inputs) * Len(outputs)
    THEN st
    ELSE PairLoop(PairBody(st, tx_hash, tx_date,
                           InputOf(k, inputs, outputs), OutputOf(k, inputs, outputs)),
                  tx_hash, tx_date, inputs, outputs, k + 1)

----------------------------------------------------------------------------
(* Decisions of the traversal.                                             *)

\* Mutation of line 48: the visited check never finds the hash.
IsVisitedNever(visited, tx_hash) == FALSE

\* line 48
IsVisited(visited, tx_hash) == tx_hash \in visited

\* Mutation of line 50: the hash is not recorded.
MarkVisitedNot(visited, tx_hash) == visited

\* line 50
MarkVisited(visited, tx_hash) == visited \cup {tx_hash}

\* Mutation of line 103: the depth test admits current_depth = max_depth.
DepthAllowsInclusive(current_depth, max_depth) ==
    max_depth = 0 \/ current_depth <= max_depth

\* line 103
DepthAllows(current_depth, max_depth) == max_depth = 0 \/ current_depth < max_depth

\* Mutation of line 124: whatever is not of address length is a hash.
IsTxHashNotAddress(target) == StrLen(target) # 34

\* line 124
IsTxHash(target) == StrLen(target) = 64

\* Mutation of lines 22-24: the containers are shared by the objects of the
\* class, so a new object finds what an earlier one left.
NewAnalyzerShared ==
    [G |-> [nodes |-> {"A", "B"}, attrs |-> <<>>,
            edges |-> (<<"A", "B">> :> [tx_id |-> "T1", value |-> Num(3), date |-> 3])],
     wallet_balances |-> ("A" :> (0 - 5)) @@ ("B" :> 3),
     visited_transactions |-> {"T1"}]

\* __init__ (lines 22-24)
NewAnalyzer ==
    [G |-> EmptyGraph, wallet_balances |-> <<>>, visited_transactions |-> {}]

Frame(tx_hash, current_depth) ==
    [tx_hash |-> tx_hash, current_depth |-> current_depth, pc |-> "start",
     outputs |-> <<>>, oi |-> 1, next_txs |-> <<>>, ni |-> 1]

NoBuild == [pc |-> "idle", target |-> NULL, max_depth |-> 0, txs |-> <<>>, i |-> 1]
NoLast == [tx_hash |-> NULL, m |-> 0, n |-> 0, edges_before |-> 0, raised |-> FALSE]

\* main() has not been entered: the class is used by an importing caller.
NoMain == [pc |-> "idle", target |-> NULL, max_depth |-> 0, html |-> FALSE]

\* Who calls build_graph: an importing caller with any arguments, or main()
\* (line 650) once, on the object it has just constructed, with the arguments
\* it read from config.ini.
CallAllowed(target, max_depth) ==
    \/ main.pc = "idle"
    \/ /\ main.pc = "build"
       /\ outcome = "none"
       /\ target = main.target
       /\ max_depth = main.max_depth

Self == [G |-> G, wallet_balances |-> wallet_balances,
         visited_transactions |-> visited_transactions]

Init ==
    /\ db \in Ledgers
    /\ G = NewAnalyzer.G
    /\ wallet_balances = NewAnalyzer.wallet_balances
    /\ visited_transactions = NewAnalyzer.visited_transactions
    /\ build = NoBuild
    /\ stack = <<>>
    /\ outcome = "none"
    /\ entry = NewAnalyzer
    /\ expansions = <<>>
    /\ pairs_done = <<>>
    /\ last = NoLast
    /\ query_failed = FALSE
    /\ main = NoMain

----------------------------------------------------------------------------
(* build_graph (lines 119-144).                                            *)

\* The call, up to the seed loop: lines 124-132.
BuildGraph(target, max_depth) ==
    /\ build.pc = "idle"
    /\ CallAllowed(target, max_depth)
    /\ build' = [pc |-> "seeds", target |-> target, max_depth |-> max_depth,
                 txs |-> IF IsTxHash(target) THEN <<target>>
                         ELSE SelectWalletTxs(db, target),
                 i |-> 1]
    /\ outcome' = "running"
    /\ entry' = Self
    /\ expansions' = <<>>
    /\ query_failed' = FALSE
    /\ UNCHANGED <<db, main, G, wallet_balances, visited_transactions, stack, pairs_done, last>>

\* Mutation of lines 133-135: the handler goes on to the seed loop with no
\* transactions instead of returning.
BuildGraphQueryErrorGoesOn(target, max_depth) ==
    /\ build.pc = "idle"
    /\ CallAllowed(target, max_depth)
    /\ ~IsTxHash(target)
    /\ build' = [pc |-> "seeds", target |-> target, max_depth |-> max_depth,
                 txs |-> <<>>, i |-> 1]
    /\ outcome' = "running"
    /\ entry' = Self
    /\ expansions' = <<>>
    /\ query_failed' = TRUE
    /\ UNCHANGED <<db, main, G, wallet_balances, visited_transactions, stack, pairs_done, last>>

\* The wallet query raises sqlite3.Error: lines 133-135, return without the
\* node attributes.
BuildGraphQueryError(target, max_depth) ==
    /\ build.pc = "idle"
    /\ CallAllowed(target, max_depth)
    /\ ~IsTxHash(target)
    /\ build' = [pc |-> "idle", target |-> target, max_depth |-> max_depth,
                 txs |-> <<>>, i |-> 1]
    /\ outcome' = "aborted"
    /\ entry' = Self
    /\ expansions' = <<>>
    /\ query_failed' = TRUE
    /\ UNCHANGED <<db, main, G, wallet_balances, visited_transactions, stack, pairs_done, last>>

\* One pass of the seed loop: lines 125, 137-138.
CallSeed ==
    /\ build.pc = "seeds"
    /\ stack = <<>>
    /\ build.i <= Len(build.txs)
    /\ stack' = <<Frame(build.txs[build.i], 1)>>
    /\ build' = [build EXCEPT !.i = @ + 1]
    /\ UNCHANGED <<db, main, G, wallet_balances, visited_transactions, outcome, entry,
                   expansions, pairs_done, last, query_failed>>

\* f"{node[:6]}...{node[-4:]}\nBalance: {balance:.8f} BTC"
Label(node, balance) == <<node, balance>>

\* Mutation of lines 141-144: the return without the attribute loop.
FinalizeSkipsAttrs ==
    /\ build.pc = "seeds"
    /\ stack = <<>>
    /\ build.i > Len(build.txs)
    /\ build' = [build EXCEPT !.pc = "idle"]
    /\ outcome' = "returned"
    /\ UNCHANGED <<db, main, G, wallet_balances, visited_transactions, stack, entry,
                   expansions, pairs_done, last, query_failed>>

\* The node attributes, lines 141-144, and the return.
Finalize ==
    /\ build.pc = "seeds"
    /\ stack = <<>>
    /\ build.i > Len(build.txs)
    /\ G' = [G EXCEPT !.attrs =
                [node \in G.nodes |->
                    LET balance == Get(wallet_balances, node, 0)
                    IN  [balance |-> balance, label |-> Label(node, balance)]]]
    /\ build' = [build EXCEPT !.pc = "idle"]
    /\ outcome' = "returned"
    /\ UNCHANGED <<db, main, wallet_balances, visited_transactions, stack, entry,
                   expansions, pairs_done, last, query_failed>>

----------------------------------------------------------------------------
(* _process_transaction (lines 43-117).  top is the innermost activation.  *)

top == Head(stack)
Return == stack' = Tail(stack)
Count(f, k) == Put(f, k, Get(f, k, 0) + 1)

\* At the head of the body, past the visited check (lines 48-50).
Entering ==
    /\ stack # <<>>
    /\ top.pc = "start"
    /\ ~IsVisited(visited_transactions, top.tx_hash)

Enter ==
    /\ visited_transactions' = MarkVisited(visited_transactions, top.tx_hash)
    /\ expansions' = Count(expansions, top.tx_hash)

\* lines 48-49: the hash was expanded before.
AlreadyVisited ==
    /\ stack # <<>>
    /\ top.pc = "start"
    /\ IsVisited(visited_transactions, top.tx_hash)
    /\ Return
    /\ UNCHANGED <<db, main, G, wallet_balances, visited_transactions, build, outcome,
                   entry, expansions, pairs_done, last, query_failed>>

\* lines 57-59: the TRANSACT query raises sqlite3.Error.
TransactQueryError ==
    /\ Entering
    /\ Enter
    /\ Return
    /\ query_failed' = TRUE
    /\ UNCHANGED <<db, main, G, wallet_balances, build, outcome, entry, pairs_done, last>>

\* Mutation of lines 61-62: without the test the unpacking of None at line 64
\* raises TypeError, which leaves every activation and build_graph.
TransactMissingRaises ==
    /\ Entering
    /\ SelectTransact(db, top.tx_hash) = <<>>
    /\ Enter
    /\ stack' = <<>>
    /\ build' = [build EXCEPT !.pc = "idle"]
    /\ outcome' = "raised"
    /\ UNCHANGED <<db, main, G, wallet_balances, entry, pairs_done, last, query_failed>>

\* lines 61-62: no row.
TransactMissing ==
    /\ Entering
    /\ SelectTransact(db, top.tx_hash) = <<>>
    /\ Enter
    /\ Return
    /\ UNCHANGED <<db, main, G, wallet_balances, build, outcome, entry, pairs_done, last,
                   query_failed>>

HasDatedRow(tx_hash) ==
    /\ SelectTransact(db, tx_hash) # <<>>
    /\ ParseTime(SelectTransact(db, tx_hash)[1].time) # <<>>

\* lines 65-72: neither parse of the timestamp succeeds.
InvalidDate ==
    /\ Entering
    /\ SelectTransact(db, top.tx_hash) # <<>>
    /\ ParseTime(SelectTransact(db, top.tx_hash)[1].time) = <<>>
    /\ Enter
    /\ Return
    /\ UNCHANGED <<db, main, G, wallet_balances, build, outcome, entry, pairs_done, last,
                   query_failed>>

\* lines 87-89: the INPUTS or the OUTPUTS query raises sqlite3.Error.
RecordsQueryError ==
    /\ Entering
    /\ HasDatedRow(top.tx_hash)
    /\ Enter
    /\ Return
    /\ query_failed' = TRUE
    /\ UNCHANGED <<db, main, G, wallet_balances, build, outcome, entry, pairs_done, last>>

\* lines 64-103 with every query answered: the pair loop, then either the
\* exception it raised leaves every activation and build_graph, or the depth
\* test decides between the successor loop and the return.
ProcessTransaction ==
    /\ Entering
    /\ HasDatedRow(top.tx_hash)
    /\ Enter
    /\ LET tx_data  == SelectTransact(db, top.tx_hash)[1]
           tx_hash  == tx_data.hash
           tx_date  == Strftime(ParseTime(tx_data.time)[1])
           inputs   == SelectInputs(db, tx_hash)
           outputs  == SelectOutputs(db, tx_hash)
           st       == PairLoop([g |-> G, bal |-> wallet_balances,
                                 raised |-> FALSE, done |-> 0],
                                tx_hash, tx_date, inputs, outputs, 1)
       IN  /\ G' = st.g
           /\ wallet_balances' = st.bal
           /\ pairs_done' = Put(pairs_done, tx_hash, st.done)
           /\ last' = [tx_hash |-> tx_hash, m |-> Len(inputs), n |-> Len(outputs),
                       edges_before |-> Cardinality(DOMAIN G.edges),
                       raised |-> st.raised]
           /\ IF st.raised
              THEN /\ stack' = <<>>
                   /\ build' = [build EXCEPT !.pc = "idle"]
                   /\ outcome' = "raised"
              ELSE /\ IF DepthAllows(top.current_depth, build.max_depth)
                      THEN stack' = <<[top EXCEPT !.pc = "lookup", !.outputs = outputs,
                                                  !.oi = 1]>> \o Tail(stack)
                      ELSE Return
                   /\ UNCHANGED <<build, outcome>>
    /\ UNCHANGED <<db, main, entry, query_failed>>

\* lines 105-111: the successor query for the next output, or the end of the
\* outer loop and the return.
Lookup ==
    /\ stack # <<>>
    /\ top.pc = "lookup"
    /\ IF top.oi > Len(top.outputs)
       THEN Return
       ELSE stack' = <<[top EXCEPT !.pc = "recurse",
                                   !.next_txs = SelectSpending(db, top.outputs[top.oi][1]),
                                   !.ni = 1]>> \o Tail(stack)
    /\ UNCHANGED <<db, main, G, wallet_balances, visited_transactions, build, outcome,
                   entry, expansions, pairs_done, last, query_failed>>

\* lines 112-114: the successor query raises sqlite3.Error; continue.
LookupQueryError ==
    /\ stack # <<>>
    /\ top.pc = "lookup"
    /\ top.oi <= Len(top.outputs)
    /\ stack' = <<[top EXCEPT !.oi = @ + 1]>> \o Tail(stack)
    /\ query_failed' = TRUE
    /\ UNCHANGED <<db, main, G, wallet_balances, visited_transactions, build, outcome,
                   entry, expansions, pairs_done, last>>

\* lines 116-117: the recursive call for the next successor, or the end of the
\* inner loop.
Recurse ==
    /\ stack # <<>>
    /\ top.pc = "recurse"
    /\ IF top.ni > Len(top.next_txs)
       THEN stack' = <<[top EXCEPT !.pc = "lookup", !.oi = @ + 1, !.next_txs = <<>>,
                                   !.ni = 1]>> \o Tail(stack)
       ELSE stack' = <<Frame(top.next_txs[top.ni], top.current_depth + 1),
                       [top EXCEPT !.ni = @ + 1]>> \o Tail(stack)
    /\ UNCHANGED <<db, main, G, wallet_balances, visited_transactions, build, outcome,
                   entry, expansions, pairs_done, last, query_failed>>

----------------------------------------------------------------------------

\* The steps of a build in progress.
Step ==
    \/ CallSeed
    \/ Finalize
    \/ AlreadyVisited
    \/ TransactQueryError
    \/ TransactMissing
    \/ InvalidDate
    \/ RecordsQueryError
    \/ ProcessTransaction
    \/ Lookup
    \/ LookupQueryError
    \/ Recurse

Call ==
    \E target \in Targets, max_depth \in Depths :
        \/ BuildGraph(target, max_depth)
        \/ BuildGraphQueryError(target, max_depth)

----------------------------------------------------------------------------
(* main (lines 629-663).                                                   *)

\* Line 646: the only lengths main lets through.
ValidTarget(target) == StrLen(target) = 34 \/ StrLen(target) = 62

\* main() is entered in a process that has built nothing yet.
MainEntered ==
    /\ main.pc = "idle"
    /\ outcome = "none"
    /\ build.pc = "idle"

\* Lines 636-637 and 654-657: config.ini lacks Target (KeyError) or Depth is
\* not an integer (ValueError); the handler prints and main returns.
MainConfigError ==
    /\ MainEntered
    /\ main' = [NoMain EXCEPT !.pc = "failed"]
    /\ UNCHANGED <<db, G, wallet_balances, visited_transactions, build, stack, outcome,
                   entry, expansions, pairs_done, last, query_failed>>

\* Lines 646-647 and 656-657: the length check raises ValueError, the handler
\* prints and main returns; no object is constructed.
MainReject(target, max_depth) ==
    /\ MainEntered
    /\ ~ValidTarget(target)
    /\ main' = [pc |-> "rejected", target |-> target, max_depth |-> max_depth,
                html |-> FALSE]
    /\ UNCHANGED <<db, G, wallet_balances, visited_transactions, build, stack, outcome,
                   entry, expansions, pairs_done, last, query_failed>>

\* Lines 646-649: the length check passes and the analyzer is constructed (the
\* state of Init); build_graph is called next.
MainAccept(target, max_depth) ==
    /\ MainEntered
    /\ ValidTarget(target)
    /\ main' = [pc |-> "build", target |-> target, max_depth |-> max_depth,
                html |-> FALSE]
    /\ UNCHANGED <<db, G, wallet_balances, visited_transactions, build, stack, outcome,
                   entry, expansions, pairs_done, last, query_failed>>

\* Lines 652-657: build_graph returned (with or without the node attributes);
\* GraphML is written, and the HTML page too when Depth < 3.
MainExport ==
    /\ main.pc = "build"
    /\ build.pc = "idle"
    /\ outcome \in {"returned", "aborted"}
    /\ main' = [main EXCEPT !.pc = "exported", !.html = ~(main.max_depth >= 3)]
    /\ UNCHANGED <<db, G, wallet_balances, visited_transactions, build, stack, outcome,
                   entry, expansions, pairs_done, last, query_failed>>

\* Lines 656-661: an exception left build_graph; a handler prints it and main
\* returns without exporting.
MainError ==
    /\ main.pc = "build"
    /\ outcome = "raised"
    /\ main' = [main EXCEPT !.pc = "failed"]
    /\ UNCHANGED <<db, G, wallet_balances, visited_transactions, build, stack, outcome,
                   entry, expansions, pairs_done, last, query_failed>>

Main ==
    \/ MainConfigError
    \/ \E target \in Targets, max_depth \in Depths :
          \/ MainReject(target, max_depth)
          \/ MainAccept(target, max_depth)
    \/ MainExport
    \/ MainError

Next == Call \/ Step \/ Main

Spec == Init /\ [][Next]_vars

\* A build in progress keeps running: the interpreter executes the next
\* statement of a call that has not returned.
FairSpec == Spec /\ WF_vars(Step)

----------------------------------------------------------------------------
(* Vocabulary of the properties.                                           *)

Hashes == Range(HashOrder)
IsEmptyState(e) ==
    /\ e.G.nodes = {}
    /\ DOMAIN e.G.edges = {}
    /\ DOMAIN e.wallet_balances = {}
    /\ e.visited_transactions = {}

Running == outcome = "running"
ExpandedAtMostOnce == \A h \in DOMAIN expansions : expansions[h] <= 1

\* An expand call on a hash that is already in the Visited Set.
RepeatedCall ==
    /\ stack # <<>>
    /\ top.pc = "start"
    /\ top.tx_hash \in visited_transactions

\* C1: every build call terminates, whatever the ledger (cyclic successor
\* lookups included) and whatever max_depth (0 included), and no hash is
\* expanded twice on the way.
C1_Terminates == (Running ~> ~Running) /\ []ExpandedAtMostOnce

\* The whole cycle T1 -> T2 -> T3 -> T1 was traversed without a depth limit and
\* the build returned.
C1_Witness ==
    /\ db = LedgerCycle
    /\ outcome = "returned"
    /\ build.max_depth = 0
    /\ build.target = "T1"
    /\ {"T1", "T2", "T3"} \subseteq DOMAIN expansions

\* C2: within one traversal a hash passes the visited check at most once, and
\* an expand call on a visited hash returns leaving the graph, the Balance
\* Ledger, the Visited Set and the expansion record as they were, calling
\* nothing.
C2_ExpandedOnce ==
    /\ []ExpandedAtMostOnce
    /\ [][RepeatedCall =>
            /\ stack' = Tail(stack)
            /\ UNCHANGED <<G, wallet_balances, visited_transactions, expansions,
                           pairs_done>>]_vars

\* A nested call, below the seeds, on a hash whose pairs were processed earlier
\* in the same traversal.
C2_Witness ==
    /\ RepeatedCall
    /\ top.current_depth > 1
    /\ Get(expansions, top.tx_hash, 0) = 1
    /\ Get(pairs_done, top.tx_hash, 0) > 0

\* The records of a processed transaction, as its pair loop read them.
InputsOf(h) == SelectInputs(db, h)
OutputsOf(h) == SelectOutputs(db, h)
EdgeCount == Cardinality(DOMAIN G.edges)
Processed == DOMAIN pairs_done

\* C3: the pair loop of a transaction with m input and n output records adds
\* exactly m*n edges, one per (input, output) pair, carrying the pair's sender,
\* receiver, output value and the transaction's date.
C3_CrossProductEdges ==
    (last.tx_hash # NULL /\ ~last.raised) =>
        EdgeCount = last.edges_before + last.m * last.n

\* C4: every (input, output) pair processed so far still has its own edge:
\* an edge from the pair's sender to its receiver carrying the pair's
\* transaction as tx_id and the pair's output value.
C4_EdgesKept ==
    \A h \in Processed : \A k \in 1 .. pairs_done[h] :
        LET u == InputOf(k, InputsOf(h), OutputsOf(h))[1]
            out == OutputOf(k, InputsOf(h), OutputsOf(h))
        IN  /\ <<u, out[1]>> \in DOMAIN G.edges
            /\ G.edges[<<u, out[1]>>].tx_id = h
            /\ G.edges[<<u, out[1]>>].value = out[2]

\* The contribution of pair k of transaction h to the balance of address a.
Contribution(a, h, k) ==
    LET inp == InputOf(k, InputsOf(h), OutputsOf(h))
        out == OutputOf(k, InputsOf(h), OutputsOf(h))
    IN  (IF inp[1] = a THEN 0 - Float(inp[2]) ELSE 0)
          + (IF out[1] = a THEN Float(out[2]) ELSE 0)

RECURSIVE SumPairs(_, _, _)
SumPairs(a, h, k) ==
    IF k = 0 THEN 0 ELSE Contribution(a, h, k) + SumPairs(a, h, k - 1)

RECURSIVE SumOver(_, _)
SumOver(a, hs) ==
    IF hs = {} THEN 0
    ELSE LET h == CHOOSE x \in hs : TRUE
         IN  SumPairs(a, h, pairs_done[h]) + SumOver(a, hs \ {h})

SignedSum(a) == SumOver(a, Processed)
Addresses == {"A", "B", "C", "W64", NULL}

\* C5: the Balance Ledger entry of every address (0 when absent) is the signed
\* sum of the contributions of the pairs processed so far.
C5_BalanceIsSignedSum ==
    \A a \in Addresses \cup DOMAIN wallet_balances :
        Get(wallet_balances, a, 0) = SignedSum(a)

\* C6: with max_depth = d > 0 no activation of _process_transaction, so no
\* fetch and no expansion, runs at a depth greater than d.
C6_DepthBound ==
    build.max_depth > 0 =>
        \A i \in 1 .. Len(stack) : stack[i].current_depth <= build.max_depth

\* A build with max_depth = 2 from T1 on the cycle returned having expanded T1
\* and T2 and not T3, the successor at depth 3.
C6_Witness ==
    /\ db = LedgerCycle
    /\ outcome = "returned"
    /\ build.max_depth = 2
    /\ build.target = "T1"
    /\ ~query_failed
    /\ visited_transactions = {"T1", "T2"}

\* The successors the traversal looks up for a transaction it processes.
Successors(t) ==
    IF HasDatedRow(t)
    THEN UNION {Range(SelectSpending(db, o[1])) : o \in Range(OutputsOf(t))}
    ELSE {}

RECURSIVE Closure(_)
Closure(S) ==
    LET N == S \cup UNION {Successors(t) : t \in S}
    IN  IF N = S THEN S ELSE Closure(N)

Contributed(t) ==
    Get(pairs_done, t, 0 - 1) = Len(InputsOf(t)) * Len(OutputsOf(t))

\* C7: when a build with max_depth = 0 on a newly constructed object ends and
\* no query failed, every transaction reachable from a seed by successor
\* lookups over transactions with a record and a parseable timestamp is in the
\* Visited Set and, having such a record itself, has contributed all its pairs.
C7_ReachableVisited ==
    (/\ outcome \in {"returned", "raised"}
     /\ build.max_depth = 0
     /\ ~query_failed
     /\ IsEmptyState(entry)) =>
        \A t \in Closure(Range(build.txs)) :
            /\ t \in visited_transactions
            /\ HasDatedRow(t) => Contributed(t)

\* C8: no failure inside the processing of one transaction leaves its expand
\* call: build_graph never ends by an exception.
C8_NoPropagation == outcome # "raised"

\* The hashes of the transactions with a record naming the address.
Touching(a) ==
    {h \in Hashes :
        \/ \E i \in 1 .. Len(db.INPUTS) :
              db.INPUTS[i].transaction_hash = h /\ db.INPUTS[i].recipient = a
        \/ \E i \in 1 .. Len(db.OUTPUTS) :
              db.OUTPUTS[i].transaction_hash = h /\ db.OUTPUTS[i].recipient = a}

\* C9: the seeds of a build are the target itself when it is 64 characters
\* long, and otherwise the transactions with an input or output record naming
\* the target, each once; every seed is expanded at depth 1.
C9_SeedsByLength ==
    build.pc = "seeds" =>
        /\ IF StrLen(build.target) = 64
           THEN build.txs = <<build.target>>
           ELSE /\ Range(build.txs) = Touching(build.target)
                /\ Cardinality(Range(build.txs)) = Len(build.txs)
        /\ stack # <<>> =>
              /\ stack[Len(stack)].current_depth = 1
              /\ stack[Len(stack)].tx_hash = build.txs[build.i - 1]

\* An address target with several transactions: the second seed is being
\* expanded.
C9_Witness ==
    /\ build.pc = "seeds"
    /\ StrLen(build.target) # 64
    /\ Len(build.txs) >= 2
    /\ build.i = 3
    /\ stack # <<>>

\* C10 as stated: every build starts from an empty graph, an empty Visited
\* Set and an empty Balance Ledger.
C10_FreshEveryBuild == Running => IsEmptyState(entry)

\* C10 amended: build_graph resets nothing.  The first build on an object
\* starts from the empty state its construction set up; a later build starts
\* from the graph, Visited Set and Balance Ledger the earlier builds left.
C10_StateCarriedOver ==
    [][(build.pc = "idle" /\ outcome' \in {"running", "aborted"}) =>
            /\ UNCHANGED <<G, wallet_balances, visited_transactions>>
            /\ outcome = "none" => IsEmptyState(Self)]_vars

\* A second build returned, having added edges to the graph it found.
C10_Witness ==
    /\ outcome = "returned"
    /\ entry.visited_transactions # {}
    /\ DOMAIN entry.G.edges # {}
    /\ DOMAIN entry.G.edges # DOMAIN G.edges

\* The seed loop is over and no activation is left.
TraversalOver ==
    /\ stack = <<>>
    /\ build.pc = "seeds"
    /\ build.i > Len(build.txs)

\* C11: when a build returns after its traversal every node carries the
\* Balance Ledger's value for its address (0 without an entry); the node
\* attributes are written only by the step that ends the build, after the last
\* seed's expansion returned, and no balance changes once they are written.
C11_FinalBalances ==
    /\ [](outcome = "returned" =>
            \A node \in G.nodes :
                /\ node \in DOMAIN G.attrs
                /\ G.attrs[node].balance = Get(wallet_balances, node, 0))
    /\ [][G.attrs # G'.attrs => (TraversalOver /\ outcome' = "returned")]_vars
    /\ [][outcome = "returned" => wallet_balances' = wallet_balances]_vars

\* A build returned with a node whose balance is not 0.
C11_Witness ==
    /\ outcome = "returned"
    /\ \E node \in G.nodes : node \in DOMAIN G.attrs /\ G.attrs[node].balance < 0
    /\ \E node \in G.nodes : node \in DOMAIN G.attrs /\ G.attrs[node].balance > 0

\* C12: on the ledger holding only T1 with inputs [(A,5)], outputs
\* [(B,3),(C,2)], expanding T1 at depth 1 with max_depth = 1 from the empty
\* state yields exactly the edges A->B (3) and A->C (2), the balances A = -10,
\* B = 3, C = 2, and expands nothing else.
C12_Scenario ==
    (/\ db = LedgerScenario
     /\ build.target = "T1"
     /\ build.max_depth = 1
     /\ IsEmptyState(entry)
     /\ ~query_failed
     /\ outcome = "returned") =>
        /\ DOMAIN G.edges = {<<"A", "B">>, <<"A", "C">>}
        /\ G.edges[<<"A", "B">>].value = Num(3)
        /\ G.edges[<<"A", "C">>].value = Num(2)
        /\ \A e \in DOMAIN G.edges : G.edges[e].tx_id = "T1" /\ G.edges[e].date = 3
        /\ DOMAIN wallet_balances = {"A", "B", "C"}
        /\ wallet_balances["A"] = 0 - 10
        /\ wallet_balances["B"] = 3
        /\ wallet_balances["C"] = 2
        /\ visited_transactions = {"T1"}
        /\ DOMAIN expansions = {"T1"}

\* The scenario's build returned.
C12_Witness ==
    /\ db = LedgerScenario
    /\ build.target = "T1"
    /\ build.max_depth = 1
    /\ IsEmptyState(entry)
    /\ ~query_failed
    /\ outcome = "returned"
    /\ EdgeCount = 2

\* The pair loop of the innermost activation runs to its end in this step, the
\* activation being at the depth budget.
ProcessedAtBudget ==
    /\ Entering
    /\ HasDatedRow(top.tx_hash)
    /\ build.max_depth # 0
    /\ top.current_depth = build.max_depth
    /\ OutputsOf(top.tx_hash) # <<>>
    /\ top.tx_hash \in DOMAIN pairs_done'
    /\ ~last'.raised

\* An activation that reached the successor loop.
InSuccessorLoop(f) == f.pc \in {"lookup", "recurse"}

\* C13 as stated: a transaction processed with the depth budget exhausted
\* still has the successors of its outputs looked up (and none expanded).
C13_LookupsAtBudget ==
    [][ProcessedAtBudget =>
            /\ Len(stack') = Len(stack)
            /\ InSuccessorLoop(Head(stack'))]_vars

\* C13 amended: a transaction processed with the depth budget exhausted
\* returns after its pair loop: no successor is looked up and none is expanded.
C13_NoLookupAtBudget ==
    /\ [][ProcessedAtBudget => stack' = Tail(stack)]_vars
    /\ [](\A i \in 1 .. Len(stack) :
            (InSuccessorLoop(stack[i]) /\ build.max_depth # 0) =>
                stack[i].current_depth < build.max_depth)

\* T1 was processed at depth 1 = max_depth; its successor T2 was never called.
C13_Witness ==
    /\ db = LedgerCycle
    /\ outcome = "returned"
    /\ build.max_depth = 1
    /\ build.target = "T1"
    /\ IsEmptyState(entry)
    /\ Contributed("T1")
    /\ "T2" \in Successors("T1")
    /\ visited_transactions = {"T1"}

\* The call past the visited check finds no TRANSACT row (no statement fails
\* in the step).
MissingRecordStep ==
    /\ Entering
    /\ SelectTransact(db, top.tx_hash) = <<>>
    /\ query_failed' = query_failed

\* C14: expand on a hash without a record adds no edge, changes no balance,
\* looks up no successor and raises nothing; the hash is in the Visited Set
\* from then on.
C14_MissingRecordSkipped ==
    /\ [][MissingRecordStep =>
            /\ stack' = Tail(stack)
            /\ UNCHANGED <<G, wallet_balances, pairs_done, outcome, build>>
            /\ top.tx_hash \in visited_transactions']_vars
    /\ [][visited_transactions \subseteq visited_transactions']_vars
    /\ [](\A h \in Processed : SelectTransact(db, h) # <<>>)

\* T4, which has no record, was called and skipped, and the sibling T3 after
\* it was processed.
C14_Witness ==
    /\ db = LedgerPruned
    /\ outcome = "returned"
    /\ "T4" \in visited_transactions
    /\ "T4" \notin Processed
    /\ Contributed("T3")
    /\ \A e \in DOMAIN G.edges : G.edges[e].tx_id # "T4"

\* The timestamp kinds the two parse attempts accept.
AcceptedKinds == {"ymdhms", "epoch"}
TimeKind(h) == SelectTransact(db, h)[1].time.kind

\* C15: a transaction is processed when its timestamp is a formatted
\* date-time or an epoch number (unless a query fails); with any other
\* timestamp its call returns without an edge, a balance update or a successor
\* lookup, and raises nothing, so the traversal goes on as for a hash without
\* a record.
C15_TimestampParse ==
    /\ [][(Entering /\ SelectTransact(db, top.tx_hash) # <<>> /\ ~query_failed') =>
            IF TimeKind(top.tx_hash) \in AcceptedKinds
            THEN top.tx_hash \in DOMAIN pairs_done'
            ELSE /\ stack' = Tail(stack)
                 /\ UNCHANGED <<G, wallet_balances, pairs_done, outcome, build>>]_vars
    /\ [](\A h \in Processed : TimeKind(h) \in AcceptedKinds)
    /\ [](\A e \in DOMAIN G.edges :
            G.edges[e].date = SelectTransact(db, G.edges[e].tx_id)[1].time.secs
                                 \div SecondsPerDay)

\* T2's timestamp parsed neither way and it contributed nothing; its sibling
\* T3, with an epoch timestamp, was processed.
C15_Witness ==
    /\ db = LedgerPruned
    /\ outcome = "returned"
    /\ "T2" \in visited_transactions
    /\ "T2" \notin Processed
    /\ Contributed("T3")
    /\ \E e \in DOMAIN G.edges : G.edges[e].tx_id = "T3" /\ G.edges[e].date = 6

\* The wallet query of a build_graph call fails in this step.
WalletQueryFails ==
    /\ build.pc = "idle"
    /\ build' # build
    /\ query_failed'

\* C17: when the wallet query of an address-mode build fails, build_graph
\* returns at once with no seeds: nothing is expanded, the graph, the Visited
\* Set and the Balance Ledger stay as they were, and nothing is raised.
C17_SeedQueryFailure ==
    /\ [][WalletQueryFails =>
            /\ outcome' = "aborted"
            /\ build'.pc = "idle"
            /\ build'.txs = <<>>
            /\ stack' = <<>>
            /\ UNCHANGED <<G, wallet_balances, visited_transactions, pairs_done>>]_vars
    /\ [](outcome = "aborted" =>
            /\ Self = entry
            /\ stack = <<>>
            /\ build.pc = "idle"
            /\ expansions = <<>>)

\* A build on an object with earlier results was aborted by the failing query.
C17_Witness ==
    /\ outcome = "aborted"
    /\ entry.visited_transactions # {}
    /\ DOMAIN entry.wallet_balances # {}
    /\ Self = entry

\* C18: every edge joins two non-null addresses, the recipient of an input
\* record and the recipient of an output record of the transaction its tx_id
\* names, and carries that output record's value.
C18_EdgeEndpoints ==
    \A e \in DOMAIN G.edges :
        /\ e[1] # NULL
        /\ e[2] # NULL
        /\ \E i \in 1 .. Len(db.INPUTS) :
              /\ db.INPUTS[i].transaction_hash = G.edges[e].tx_id
              /\ db.INPUTS[i].recipient = e[1]
        /\ \E j \in 1 .. Len(db.OUTPUTS) :
              /\ db.OUTPUTS[j].transaction_hash = G.edges[e].tx_id
              /\ db.OUTPUTS[j].recipient = e[2]
              /\ db.OUTPUTS[j].value = G.edges[e].value

\* The whole cycle was processed: three transactions left their edges, one of
\* them whose input and output values differ.
C18_Witness ==
    /\ db = LedgerCycle
    /\ outcome = "returned"
    /\ {G.edges[e].tx_id : e \in DOMAIN G.edges} = {"T1", "T2", "T3"}
    /\ G.edges[<<"A", "B">>].value = Num(3)

\* C19: a hash is in the Visited Set before any of its successors is called:
\* every activation past the visited check has its hash in the set, and two
\* activations on the stack name the same hash only when the inner one is the
\* innermost, still at its visited check, which makes it return.
C19_NoReentry ==
    /\ \A i \in 1 .. Len(stack) :
          (i > 1 \/ stack[i].pc # "start") => stack[i].tx_hash \in visited_transactions
    /\ \A i, j \in 1 .. Len(stack) :
          (i < j /\ stack[i].tx_hash = stack[j].tx_hash) =>
              (i = 1 /\ stack[i].pc = "start")

\* T1, its own successor, is called from inside its own activation.
C19_Witness ==
    /\ Len(stack) >= 2
    /\ top.pc = "start"
    /\ top.tx_hash = stack[2].tx_hash
    /\ stack[2].pc = "recurse"

\* The transactions within n successor hops of the set S.
RECURSIVE WithinHops(_, _)
WithinHops(S, n) ==
    IF n = 0 THEN S
    ELSE WithinHops(S \cup UNION {Successors(t) : t \in S}, n - 1)

\* C20: when a build with max_depth = d > 0 on a newly constructed object
\* returns and no query failed, every transaction within d - 1 successor hops
\* of a seed is in the Visited Set and, having a record with a parseable
\* timestamp, has contributed all its pairs.
C20_WithinBudgetExpanded ==
    (/\ outcome = "returned"
     /\ build.max_depth > 0
     /\ ~query_failed
     /\ IsEmptyState(entry))
    => \A t \in WithinHops(Range(build.txs), build.max_depth - 1) :
          /\ t \in visited_transactions
          /\ HasDatedRow(t) => Contributed(t)

\* C16: a seed handed to main() whose length is neither the address length
\* main names nor the length build_graph takes for a transaction hash is
\* rejected: no build is started, no query is issued, no transaction is
\* expanded and nothing is exported.
C16_InvalidSeedRejected ==
    (/\ main.pc # "idle"
     /\ main.target # NULL
     /\ StrLen(main.target) # 34
     /\ ~IsTxHash(main.target))
    => /\ main.pc = "rejected"
       /\ build = NoBuild
       /\ stack = <<>>
       /\ outcome = "none"
       /\ Self = NewAnalyzer

\* C21: in every reachable state the addresses with a Balance Ledger entry
\* are exactly the nodes of the graph.
C21_NodesAreLedgerKeys == G.nodes = DOMAIN wallet_balances

\* C22: a seed of the length build_graph takes for a transaction hash is
\* never rejected by main(), and a seed main() lets through as a hash (not
\* as an address of 34 characters) is one build_graph seeds in transaction
\* mode.
C22_HashSeedsReachBuild ==
    /\ (main.target # NULL /\ IsTxHash(main.target)) => main.pc # "rejected"
    /\ (main.pc \in {"build", "exported", "failed"} /\ main.target # NULL
            /\ StrLen(main.target) # 34)
       => IsTxHash(main.target)

----------------------------------------------------------------------------
(* A whole build with max_depth = 0 as a function of the ledger and the    *)
(* seeds, for comparing runs that differ in the order of the records.      *)

Reverse(s) == [i \in 1 .. Len(s) |-> s[Len(s) + 1 - i]]

\* The ledger d with its INPUTS rows, its OUTPUTS rows, both or neither
\* returned in the opposite order.
Reorderings(d) ==
    {[d EXCEPT !.INPUTS = i, !.OUTPUTS = o] :
        i \in {d.INPUTS, Reverse(d.INPUTS)}, o \in {d.OUTPUTS, Reverse(d.OUTPUTS)}}

\* lines 105-117 for all outputs: the successors in the order they are called.
RECURSIVE NextTxs(_, _, _)
NextTxs(d, outputs, oi) ==
    IF oi > Len(outputs) THEN <<>>
    ELSE SelectSpending(d, outputs[oi][1]) \o NextTxs(d, outputs, oi + 1)

\* _process_transaction(tx_hash, _, 0) on ledger d with every query answered,
\* run to its return (lines 48-117); ExpandAll is a loop of such calls.  An
\* exception ends everything.
RECURSIVE Expand(_, _, _)
RECURSIVE ExpandAll(_, _, _)
Expand(d, st, tx_hash) ==
    IF st.raised \/ IsVisited(st.visited, tx_hash) THEN st
    ELSE LET marked == [st EXCEPT !.visited = MarkVisited(@, tx_hash)]
             row    == SelectTransact(d, tx_hash)
         IN  IF row = <<>> THEN marked
             ELSE IF ParseTime(row[1].time) = <<>> THEN marked
             ELSE LET inputs  == SelectInputs(d, tx_hash)
                      outputs == SelectOutputs(d, tx_hash)
                      looped  == PairLoop([g |-> st.g, bal |-> st.bal,
                                           raised |-> FALSE, done |-> 0],
                                          tx_hash, Strftime(ParseTime(row[1].time)[1]),
                                          inputs, outputs, 1)
                      after   == [marked EXCEPT !.g = looped.g, !.bal = looped.bal,
                                                !.raised = looped.raised]
                  IN  ExpandAll(d, after, NextTxs(d, outputs, 1))

ExpandAll(d, st, txs) ==
    IF txs = <<>> THEN st
    ELSE ExpandAll(d, Expand(d, st, Head(txs)), Tail(txs))

\* build_graph on a new object, up to the end of the seed loop (lines 124-138).
Traverse(d, txs) ==
    ExpandAll(d, [g |-> NewAnalyzer.G, bal |-> NewAnalyzer.wallet_balances,
                  visited |-> NewAnalyzer.visited_transactions, raised |-> FALSE],
              txs)

\* A build with max_depth = 0 on a new object has returned, no query failed.
UnboundedBuildDone ==
    /\ outcome = "returned"
    /\ build.max_depth = 0
    /\ ~query_failed
    /\ IsEmptyState(entry)

\* C23: when a build with max_depth = 0 on a new object has returned and no
\* query failed, every run on the same ledger with the input records, the
\* output records (and so the successors) or the seeds returned in the
\* opposite order, and without an exception, ends with the same Visited Set
\* and the same Balance Ledger.
C23_OrderIndependent ==
    UnboundedBuildDone =>
        \A d \in Reorderings(db), txs \in {build.txs, Reverse(build.txs)} :
            LET other == Traverse(d, txs)
            IN  ~other.raised =>
                    /\ other.visited = visited_transactions
                    /\ other.bal = wallet_balances

====
